---- MODULE Spec2Model ----
(***************************************************************************)
(* NGINX metrics monitor: the scrape -> derive -> forward cycle            *)
(* (prometheus_scraper.py, azure_monitor_sender.py) and the supervising    *)
(* loop of nginx_metrics_monitor.py.                                       *)
(*                                                                         *)
(* Python dicts are modelled as sequences of <<key, value>> pairs in       *)
(* insertion order.  Metric values (floats in the code) are exact          *)
(* rationals <<numerator, denominator>> in lowest terms.  time.time() is   *)
(* an input of each scrape: the wall clock is not monotonic.               *)
(***************************************************************************)
EXTENDS Integers, Sequences, FiniteSets, TLC

(* ---------------- bounds of the model ---------------- *)
\* largest raw counter value of a scraped sample
MaxCount == 2
\* wall-clock readings are drawn from 0..MaxTime
MaxTime == 2
\* largest batch handed to send_metrics on its own
MaxBatch == 3
\* self.scrape_interval (default 60): 1-second steps of the inter-cycle wait
ScrapeInterval == 2
\* scrapes the background thread of the exporter makes
MaxScrapes == 2
\* AzureMonitorSender objects constructed in one process
MaxSenders == 2

(* ---------------- program constants ---------------- *)
\* run: max_consecutive_failures
max_consecutive_failures == 5
\* run: time.sleep(10) of the exception handler, in seconds
BackoffSeconds == 10
\* None
None == "None"
\* name of the request counter and of the derived rate
REQ == "nginx_http_requests_total"
RPS == "nginx_requests_per_second"
CONN == "nginx_connections_active"

(* ---------------- exact arithmetic for float values ---------------- *)
Abs(n) == IF n < 0 THEN 0 - n ELSE n

RECURSIVE GCD(_, _)
GCD(a, b) == IF b = 0 THEN a ELSE GCD(b, a % b)

\* the float n / d, d > 0, in lowest terms
Rat(n, d) ==
    LET g == GCD(Abs(n), d)
    IN  IF n = 0 THEN <<0, 1>> ELSE <<n \div g, d \div g>>

\* float(v) of a whole number
Float(v) == Rat(v, 1)

RatSub(a, b) == Rat(a[1] * b[2] - b[1] * a[2], a[2] * b[2])

\* a / t for a float a and a positive whole number of seconds t
RatDivInt(a, t) == Rat(a[1], a[2] * t)

RatNeg(a) == a[1] < 0

\* max(0.0, a)
Max0(a) == IF RatNeg(a) THEN <<0, 1>> ELSE a

(* ---------------- dict helpers ---------------- *)
DictHas(d, k) == \E i \in 1..Len(d) : d[i][1] = k

\* d.get(k, default)
DictGet(d, k, default) ==
    IF DictHas(d, k)
    THEN d[CHOOSE i \in 1..Len(d) : d[i][1] = k][2]
    ELSE default

\* d[k] = v : an existing key keeps its position, a new key is appended
DictPut(d, k, v) ==
    IF DictHas(d, k)
    THEN [i \in 1..Len(d) |-> IF d[i][1] = k THEN <<k, v>> ELSE d[i]]
    ELSE Append(d, <<k, v>>)

DictKeys(d) == [i \in 1..Len(d) |-> d[i][1]]

(* ---------------- prometheus_scraper.py ---------------- *)
\* a sample of the exposition payload
Sample(n, l, v) == [name |-> n, labels |-> l, value |-> v]

\* the loop of scrape_metrics: metrics[sample.name] = {value, labels}
RECURSIVE ParseSamples(_, _)
ParseSamples(samples, metrics) ==
    IF samples = <<>>
    THEN metrics
    ELSE LET s == Head(samples)
         IN  ParseSamples(Tail(samples),
                 DictPut(metrics, s.name, [value |-> s.value, labels |-> s.labels]))

\* variant: only the failure of the GET is handled
ScrapeCatches_RequestOnly(kind) == kind = "error"

\* the handlers of scrape_metrics: `except requests.RequestException` for a
\* failed GET, `except Exception` for whatever the parser raises
ScrapeCatches(kind) == kind \in {"error", "malformed"}

\* scrape_metrics: a failed GET (transport error, non-2xx) and a payload the
\* parser rejects both give the empty dict
ScrapeMetrics(resp) ==
    IF resp.kind = "ok" THEN ParseSamples(resp.samples, <<>>) ELSE <<>>

\* "_".join([f"{k}_{v}" for k, v in labels.items()])
RECURSIVE LabelSuffix(_)
LabelSuffix(labels) ==
    IF Len(labels) = 1
    THEN labels[1][1] \o "_" \o labels[1][2]
    ELSE labels[1][1] \o "_" \o labels[1][2] \o "_" \o LabelSuffix(Tail(labels))

\* the key under which get_nginx_key_metrics files a sample
SimplifiedName(metric_name, labels) ==
    IF labels = <<>> THEN metric_name
    ELSE metric_name \o "_" \o LabelSuffix(labels)

\* the conversion loop of get_nginx_key_metrics
RECURSIVE KeyMetrics(_, _)
KeyMetrics(all_metrics, key_metrics) ==
    IF all_metrics = <<>>
    THEN key_metrics
    ELSE LET e == Head(all_metrics)
         IN  KeyMetrics(Tail(all_metrics),
                 DictPut(key_metrics, SimplifiedName(e[1], e[2].labels),
                         Float(e[2].value)))

\* hasattr(self, '_last_requests') is false until the first store
NoSample == [set |-> FALSE, requests |-> <<0, 1>>, timestamp |-> 0]

\* variant: the increase of the counter is reported undivided
WithRate_Increase(key_metrics, current_requests, now, last) ==
    IF last.set /\ now - last.timestamp > 0
    THEN DictPut(key_metrics, RPS, Max0(RatSub(current_requests, last.requests)))
    ELSE key_metrics

\* variant: an interval of zero is counted as one second
WithRate_FloorOne(key_metrics, current_requests, now, last) ==
    IF last.set /\ now - last.timestamp >= 0
    THEN DictPut(key_metrics, RPS,
             Max0(RatDivInt(RatSub(current_requests, last.requests),
                            IF now = last.timestamp THEN 1
                            ELSE now - last.timestamp)))
    ELSE key_metrics

\* the rate branch: emitted only with a stored sample and time_diff > 0
WithRate(key_metrics, current_requests, now, last) ==
    IF last.set /\ now - last.timestamp > 0
    THEN DictPut(key_metrics, RPS,
             Max0(RatDivInt(RatSub(current_requests, last.requests),
                            now - last.timestamp)))
    ELSE key_metrics

\* key_metrics.get('nginx_http_requests_total', 0)
CurrentRequests(key_metrics) == DictGet(key_metrics, REQ, Float(0))

\* get_nginx_key_metrics: the returned dict and the stored sample.  The two
\* time.time() reads of one call are the same reading `now`.
GetNginxKeyMetrics(resp, now, last) ==
    LET all_metrics == ScrapeMetrics(resp)
        key_metrics == KeyMetrics(all_metrics, <<>>)
        current_requests == CurrentRequests(key_metrics)
    IN  IF all_metrics = <<>>
        THEN [metrics |-> <<>>, last |-> last]
        ELSE [metrics |-> WithRate(key_metrics, current_requests, now, last),
              last |-> [set |-> TRUE, requests |-> current_requests,
                        timestamp |-> now]]

\* the timeout of the GET in scrape_metrics, <<>> for none:
\* `self.session.get(self.prometheus_url)` passes no timeout, and the
\* attribute set by `self.session.timeout = 10` is one requests never reads
ScrapeGetTimeout == <<>>

\* a network call without a timeout blocks for as long as the peer is silent
MayBlockForever(timeout) == timeout = <<>>

\* PrometheusMetricsScraper.health_check: status 200 and no exception
ScraperHealth(status, raised) == ~raised /\ status = 200

(* ---------------- azure_monitor_sender.py ---------------- *)
\* `not v` for an optional string: None and the empty string are falsy
Falsy(v) == v \in {None, ""}

\* a or b
PyOr(a, b) == IF Falsy(a) THEN b ELSE a

\* os.getenv(k, default): the default only for an unset variable
GetenvDefault(env, k, default) == IF env[k] = None THEN default ELSE env[k]

\* the fixed fallback region
DefaultRegion == "northeurope"

\* the metadata service did not answer with a JSON document
ImdsFailed(doc) == doc.kind # "ok"

\* _get_imds_metadata on an answered document: the dict it returns.  Only
\* the truth value of isVmss is ever used.
GetImdsMetadata(doc) ==
    LET is_vmss == ~Falsy(doc.vmScaleSetName)
    IN  [subscriptionId |-> doc.subscriptionId,
         resourceGroupName |-> doc.resourceGroupName,
         name |-> doc.name,
         location |-> doc.location,
         isVmss |-> is_vmss,
         vmScaleSetName |-> IF is_vmss THEN doc.vmScaleSetName ELSE None,
         instanceId |-> IF is_vmss THEN doc.name ELSE None]

\* variant: a configured region wins over the metadata service
ResolveLocation_ConfigFirst(env, imds_location) ==
    PyOr(env.AZURE_REGION, PyOr(imds_location, DefaultRegion))

\* imds_info.get('location') or os.getenv('AZURE_REGION', 'northeurope')
ResolveLocation(env, imds_location) ==
    PyOr(imds_location, GetenvDefault(env, "AZURE_REGION", DefaultRegion))

\* variant: one of subscription id and resource group is enough
HasScope_Any(subscription_id, resource_group) ==
    ~Falsy(subscription_id) \/ ~Falsy(resource_group)

\* all([self.subscription_id, self.resource_group])
HasScope(subscription_id, resource_group) ==
    ~Falsy(subscription_id) /\ ~Falsy(resource_group)

VmssUri(subscription_id, resource_group, vmss_name) ==
    "/subscriptions/" \o subscription_id \o "/resourceGroups/" \o resource_group
        \o "/providers/Microsoft.Compute/virtualMachineScaleSets/" \o vmss_name

VmUri(subscription_id, resource_group, resource_name) ==
    "/subscriptions/" \o subscription_id \o "/resourceGroups/" \o resource_group
        \o "/providers/Microsoft.Compute/virtualMachines/" \o resource_name

\* variant: a scale-set member is addressed as a virtual machine
ResourceUri_PerInstance(f) ==
    IF ~HasScope(f.subscription_id, f.resource_group) THEN None
    ELSE IF ~Falsy(f.resource_name)
    THEN VmUri(f.subscription_id, f.resource_group, f.resource_name)
    ELSE IF f.is_vmss /\ ~Falsy(f.vmss_name)
    THEN VmssUri(f.subscription_id, f.resource_group, f.vmss_name)
    ELSE None

\* __init__: "Build resource URI based on resource type"
ResourceUri(f) ==
    IF ~HasScope(f.subscription_id, f.resource_group) THEN None
    ELSE IF f.is_vmss /\ ~Falsy(f.vmss_name)
    THEN VmssUri(f.subscription_id, f.resource_group, f.vmss_name)
    ELSE IF ~Falsy(f.resource_name)
    THEN VmUri(f.subscription_id, f.resource_group, f.resource_name)
    ELSE None

\* f"https://{location}.monitoring.azure.com{resource_uri}/metrics"
Endpoint(location, resource_uri) ==
    "https://" \o location \o ".monitoring.azure.com" \o resource_uri \o "/metrics"

\* what __init__ resolves before the URI is built; args are the constructor
\* arguments, env is os.environ, doc is the answer of the metadata service
ResolveFields(args, env, doc) ==
    LET configured(a, k) == PyOr(args[a], env[k])
        imds_info == GetImdsMetadata(doc)
    IN  IF ImdsFailed(doc)
        THEN [subscription_id |-> configured("subscription_id", "AZURE_SUBSCRIPTION_ID"),
              resource_group |-> configured("resource_group", "AZURE_RESOURCE_GROUP"),
              resource_name |-> configured("resource_name", "AZURE_RESOURCE_NAME"),
              location |-> GetenvDefault(env, "AZURE_REGION", DefaultRegion),
              is_vmss |-> FALSE, vmss_name |-> None, instance_id |-> None]
        ELSE [subscription_id |->
                  PyOr(configured("subscription_id", "AZURE_SUBSCRIPTION_ID"),
                       imds_info.subscriptionId),
              resource_group |->
                  PyOr(configured("resource_group", "AZURE_RESOURCE_GROUP"),
                       imds_info.resourceGroupName),
              resource_name |->
                  PyOr(configured("resource_name", "AZURE_RESOURCE_NAME"),
                       imds_info.name),
              location |-> ResolveLocation(env, imds_info.location),
              is_vmss |-> imds_info.isVmss,
              vmss_name |-> imds_info.vmScaleSetName,
              instance_id |-> imds_info.instanceId]

\* AzureMonitorSender.__init__: every field of the constructed object
SenderInit(args, env, doc) ==
    LET f == ResolveFields(args, env, doc)
        uri == ResourceUri(f)
    IN  [subscription_id |-> f.subscription_id,
         resource_group |-> f.resource_group,
         resource_name |-> f.resource_name,
         location |-> f.location,
         is_vmss |-> f.is_vmss,
         vmss_name |-> f.vmss_name,
         instance_id |-> f.instance_id,
         resource_uri |-> uri,
         metrics_endpoint |-> IF uri = None THEN None
                              ELSE Endpoint(f.location, uri)]

\* get_azure_config: the three values NginxMetricsMonitor hands on
GetAzureConfig(env, doc) ==
    LET fill(k, v) == IF ImdsFailed(doc) \/ ~Falsy(env[k]) THEN env[k] ELSE v
    IN  [subscription_id |-> fill("AZURE_SUBSCRIPTION_ID", doc.subscriptionId),
         resource_group |-> fill("AZURE_RESOURCE_GROUP", doc.resourceGroupName),
         resource_name |-> fill("AZURE_RESOURCE_NAME", doc.name)]

\* status codes a POST may answer with
Statuses == {200, 201, 202, 204, 500}

\* a POST either raises a transport exception or answers with a status
Raised == [exc |-> TRUE, status |-> 0]
Answer(s) == [exc |-> FALSE, status |-> s]
Responses == {Raised} \cup {Answer(s) : s \in Statuses}

\* variant: every 2xx status counts as accepted
Accepted_AnySuccess(status) == status >= 200 /\ status < 300

\* response.status_code in [200, 202, 204]
Accepted(status) == status \in {200, 202, 204}

\* variant: one accepted metric makes the batch a success
BatchResult_AnyAccepted(success_count, n) == success_count > 0

\* the return statement after the loop
BatchResult(success_count, n) ==
    IF success_count > 0 THEN success_count = n ELSE FALSE

NoSend == [called |-> FALSE, configured |-> FALSE, token_ok |-> FALSE,
           tokens |-> 0, names |-> <<>>, responses |-> <<>>,
           posted |-> <<>>, payloads |-> <<>>, success_count |-> 0,
           raised |-> FALSE, raised_at |-> "nowhere", escaped |-> FALSE,
           result |-> FALSE]

\* the dimension lists of a payload: `... if self.is_vmss and self.instance_id else []`
DimNames(self) ==
    IF self.is_vmss /\ ~Falsy(self.instance_id) THEN <<"VMName">> ELSE <<>>

DimValues(self) ==
    IF self.is_vmss /\ ~Falsy(self.instance_id)
    THEN <<self.vmss_name \o "_" \o self.instance_id>>
    ELSE <<>>

\* the POST of one metric: where it goes and what it carries
Payload(self, metric_name) ==
    [endpoint |-> Endpoint(PyOr(self.location, DefaultRegion), self.resource_uri),
     metric |-> metric_name,
     dimNames |-> DimNames(self),
     dimValues |-> DimValues(self)]

\* variant: forwarding is attempted whatever the configuration
Configured_Always(uri) == TRUE

\* `if not self.resource_uri` guards send_metrics and health_check
Configured(uri) == ~Falsy(uri)

\* variant: a token is requested for every metric of the batch
TokenRequests_PerMetric(metrics) == Len(metrics)

\* one credential.get_token call per send_metrics call, before the loop
TokenRequests(metrics) == 1

\* variant: the token request stands before the try statement
InTry_PostOnly(step) == step = "post"

\* the try statement of send_metrics encloses the token request and the
\* loop of POSTs; `except Exception` returns False
InTry(step) == step \in {"token", "post"}

\* the for loop of send_metrics from metric i on; a raising POST leaves the
\* loop for the handler of the enclosing try
RECURSIVE SendLoop(_, _, _, _, _)
SendLoop(metrics, responses, i, success_count, posted) ==
    IF i > Len(metrics)
    THEN [posted |-> posted, success_count |-> success_count, raised |-> FALSE,
          result |-> BatchResult(success_count, Len(metrics))]
    ELSE IF responses[i].exc
    THEN [posted |-> Append(posted, metrics[i][1]),
          success_count |-> success_count, raised |-> TRUE, result |-> FALSE]
    ELSE SendLoop(metrics, responses, i + 1,
                  IF Accepted(responses[i].status) THEN success_count + 1
                  ELSE success_count,
                  Append(posted, metrics[i][1]))

\* send_metrics: no I/O without a resource URI; one get_token before the
\* loop; responses[i] is what the POST of the i-th metric meets
SendMetrics(self, tokenOk, metrics, responses) ==
    LET base == [NoSend EXCEPT !.called = TRUE,
                               !.configured = ~Falsy(self.resource_uri),
                               !.token_ok = tokenOk,
                               !.names = DictKeys(metrics),
                               !.responses = responses]
        loop == SendLoop(metrics, responses, 1, 0, <<>>)
    IN  IF ~Configured(self.resource_uri) THEN base
        ELSE IF ~tokenOk
        THEN [base EXCEPT !.tokens = TokenRequests(metrics), !.raised = TRUE,
                          !.raised_at = "token", !.escaped = ~InTry("token")]
        ELSE [base EXCEPT !.tokens = TokenRequests(metrics),
                          !.posted = loop.posted,
                          !.payloads = [i \in 1..Len(loop.posted) |->
                                           Payload(self, loop.posted[i])],
                          !.success_count = loop.success_count,
                          !.raised = loop.raised,
                          !.raised_at = IF loop.raised THEN "post" ELSE "nowhere",
                          !.escaped = loop.raised /\ ~InTry("post"),
                          !.result = loop.result]

\* variant: the probe is the token request alone
SenderHealth_TokenOnly(uri, tokenOk) == tokenOk

\* AzureMonitorSender.health_check
SenderHealth(uri, tokenOk) == IF ~Configured(uri) THEN FALSE ELSE tokenOk

(* ---------------- nginx_prometheus_exporter.py ---------------- *)
\* the metric objects _scrape_basic_metrics sets, in the order it sets them
\* (lines 163, 172, 173, 174, 186, 188, 190); the registry lists them to
\* generate_latest in the same order
MetricObjects ==
    <<"nginx_connections_active_total", "nginx_connections_accepted_total",
      "nginx_connections_handled_total", "nginx_http_requests_total",
      "nginx_connections_reading", "nginx_connections_writing",
      "nginx_connections_waiting">>

\* the registry after __init__: every metric holds its initial value.  A
\* value is identified by the number of the scrape that reported it, 0 for
\* the initial one.
NewRegistry == [i \in 1..Len(MetricObjects) |-> 0]

NoResponse == [done |-> FALSE, body |-> NewRegistry]

\* the timeout of the GETs in _scrape_basic_metrics and _scrape_json_metrics,
\* <<>> for none: `self.session.get(url)` passes no timeout, and the
\* attribute set by `self.session.timeout = 10` is one requests never reads
ExporterGetTimeout == <<>>

\* the children of exporter_scrapes_total, none incremented yet
NoScrapesTotal == [success |-> 0, failed |-> 0, error |-> 0]

\* _scrape_loop: the label under which an iteration is recorded
ScrapeResult(basic, json) == IF basic \/ json THEN "success" ELSE "failed"

(* ---------------- inputs ---------------- *)
\* payloads of the scrape source
SampleSet ==
    {Sample(REQ, <<>>, v) : v \in 0..MaxCount}
    \cup {Sample(CONN, <<>>, 1)}
    \cup {Sample("nginx_http_responses", <<<<"code", c>>>>, 1) : c \in {"200", "500"}}
    \cup {Sample("nginx_http_responses", l, 1) :
             l \in {<<<<"code", "200">>, <<"method", "GET">>>>,
                    <<<<"method", "GET">>, <<"code", "200">>>>}}

Payloads ==
    {<<>>} \cup {<<a>> : a \in SampleSet} \cup {<<a, b>> : a, b \in SampleSet}

\* payloads in which one line is one the parser rejects (a malformed line, a
\* value that is no number); samples are the well-formed samples around it
PartlyRejected ==
    {[kind |-> "malformed",
      samples |-> <<Sample(CONN, <<>>, 1), Sample(REQ, <<>>, 1)>>]}

ScrapeResponses ==
    {[kind |-> k, samples |-> <<>>] : k \in {"error", "malformed"}}
    \cup {[kind |-> "ok", samples |-> p] : p \in Payloads}
    \cup PartlyRejected

\* a request counter read twice, 10 seconds apart
ScrapeTotals ==
    {[kind |-> "ok", samples |-> <<Sample(REQ, <<>>, v)>>] : v \in {1000, 1050}}

\* the calls of get_nginx_key_metrics: what the endpoint answers and the
\* wall-clock reading
ScrapeInputs ==
    (ScrapeResponses \X (0..MaxTime)) \cup (ScrapeTotals \X {0, 10})

\* the scrape responses the run loop is driven with
LoopScrapes ==
    {[kind |-> "error", samples |-> <<>>],
     [kind |-> "ok", samples |-> <<Sample(CONN, <<>>, 1)>>]}
    \cup {[kind |-> "ok", samples |-> <<Sample(REQ, <<>>, v)>>] : v \in {0, 1}}

\* the wall-clock readings the run loop is driven with
LoopTimes == {0, 1}

\* the backend behaviours the run loop is driven with: the first k POSTs are
\* accepted, every later one meets r
LoopResponses(n) ==
    {[i \in 1..n |-> IF i <= k THEN Answer(204) ELSE r] :
         k \in {0, n - 1, n}, r \in {Answer(500), Raised}}

\* a batch of n metrics for send_metrics
BatchOf(n) == [i \in 1..n |-> <<"metric_" \o ToString(i), Float(i)>>]

\* os.environ: the four variables the sender reads
Env(sub, rg, name, region) ==
    [AZURE_SUBSCRIPTION_ID |-> sub, AZURE_RESOURCE_GROUP |-> rg,
     AZURE_RESOURCE_NAME |-> name, AZURE_REGION |-> region]

NoEnv == Env(None, None, None, None)

Environs ==
    {Env(sub, rg, name, region) :
         sub \in {None, "", "cfg-sub"}, rg \in {None, "", "cfg-rg"},
         name \in {None, "", "cfg-vm"}, region \in {None, "", "cfg-region"}}

\* what the metadata service answers: an error (timeout, transport error,
\* non-2xx), a body that is not JSON, or a document; None is an absent key
Imds(kind, sub, rg, name, location, vmss) ==
    [kind |-> kind, subscriptionId |-> sub, resourceGroupName |-> rg,
     name |-> name, location |-> location, vmScaleSetName |-> vmss]

ImdsDown == Imds("error", None, None, None, None, None)

ImdsDocs ==
    {Imds(k, None, None, None, None, None) : k \in {"error", "malformed"}}
    \cup {Imds("ok", sub, rg, name, location, vmss) :
             sub \in {None, "imds-sub"}, rg \in {None, "imds-rg"},
             name \in {None, "", "web-fleet_3"},
             location \in {None, "westeurope"},
             vmss \in {None, "", "web-fleet"}}

\* constructor arguments of AzureMonitorSender
Args(sub, rg, name) ==
    [subscription_id |-> sub, resource_group |-> rg, resource_name |-> name]

NoArgs == Args(None, None, None)

ArgSet ==
    {Args(sub, rg, name) :
         sub \in {None, "arg-sub"}, rg \in {None, "arg-rg"},
         name \in {None, "arg-vm"}}

\* the hosts the run loop is started on: a scale-set member that resolves
\* everything from the metadata service, and a host with nothing configured
LoopHosts ==
    {<<NoEnv, Imds("ok", "imds-sub", "imds-rg", "web-fleet_3", "westeurope", "web-fleet")>>,
     <<NoEnv, ImdsDown>>}

\* the hosts send_metrics is exercised on
SendHosts ==
    LoopHosts
    \cup {<<Env("cfg-sub", "cfg-rg", "cfg-vm", None), ImdsDown>>,
          <<Env("cfg-sub", "cfg-rg", None, None),
            Imds("ok", None, None, None, None, "web-fleet")>>}

(* ---------------- state ---------------- *)
VARIABLES
    pc,                    \* where main/run stands
    running,               \* self.running
    consecutive_failures,  \* the local of run
    waitLeft,              \* iterations left of `for _ in range(scrape_interval)`
    exitCode,              \* exit status of the process, None while it runs
    environ,               \* os.environ
    imds,                  \* what the metadata service answers
    imds_requests,         \* GETs sent to the metadata service
    ctor_args,             \* arguments AzureMonitorSender was constructed with
    subscription_id,       \* the fields of the AzureMonitorSender object
    resource_group,
    resource_name,
    location,
    is_vmss,
    vmss_name,
    instance_id,
    resource_uri,
    metrics_endpoint,
    last,                  \* scraper._last_requests / _last_timestamp
    signalled,             \* a SIGINT/SIGTERM has been delivered
    health,                \* what the initial probes met
    stopCause,             \* why the loop was left
    failures,              \* failures since the last successful cycle
    slept_after_signal,    \* seconds run has slept since a signal cleared self.running
    counterSeen,           \* SpecScrape: an earlier scrape contained the request counter
    lastScrape,            \* SpecScrape: the last get_nginx_key_metrics call
    lastCycle,             \* the last collect_and_send_metrics call
    lastSend,              \* the last send_metrics call
    registry,              \* exporter: the value each metric object holds
    scrape_no,             \* exporter: scrapes the background thread has begun
    scrape_at,             \* exporter: the metric _scrape_basic_metrics sets next
    read_at,               \* exporter: the metric generate_latest reads next
    body,                  \* exporter: the /metrics response being built
    served,                \* exporter: the last /metrics response sent
    stop_event,            \* exporter: self._stop_event is set
    loop_pc,               \* exporter: where _scrape_loop stands
    basic_success,         \* exporter: the local of _scrape_loop
    json_success,          \* exporter: the local of _scrape_loop
    exporter_scrapes_total, \* exporter: the counter, by label `result`
    iteration_incs         \* exporter: inc() calls on it in this iteration

\* the fields of the AzureMonitorSender object
senderVars == <<subscription_id, resource_group, resource_name, location,
                is_vmss, vmss_name, instance_id, resource_uri, metrics_endpoint>>

\* the host and what construction read from it
hostVars == <<environ, imds, imds_requests, ctor_args>>

\* the exporter process: registry, scraper thread, serving thread
\* the scrape loop of the exporter
loopVars == <<stop_event, loop_pc, basic_success, json_success,
              exporter_scrapes_total, iteration_incs>>

exporterVars == <<registry, scrape_no, scrape_at, read_at, body, served, loopVars>>

\* the monitor process
monitorVars == <<pc, running, consecutive_failures, waitLeft, exitCode, hostVars,
                 senderVars, last, signalled, health, stopCause, failures,
                 slept_after_signal, counterSeen, lastScrape, lastCycle,
                 lastSend>>

vars == <<monitorVars, exporterVars>>

\* the sender object as send_metrics sees it
Self ==
    [subscription_id |-> subscription_id, resource_group |-> resource_group,
     resource_name |-> resource_name, location |-> location,
     is_vmss |-> is_vmss, vmss_name |-> vmss_name, instance_id |-> instance_id,
     resource_uri |-> resource_uri, metrics_endpoint |-> metrics_endpoint]

\* the initial probes: token is whether the credential grants a token when
\* asked, prometheus and azure are what the two health_check methods return
NoHealth == [done |-> FALSE, prometheus |-> FALSE, token |-> FALSE,
             azure |-> FALSE]

NoScrape == [called |-> FALSE, kind |-> "none", samples |-> <<>>,
             hasCounter |-> FALSE, seenBefore |-> FALSE, first |-> FALSE,
             escaped |-> FALSE, metrics |-> <<>>, at |-> 0]

NoCycle == [ran |-> FALSE, empty |-> FALSE,
            reset_from |-> 0, unexpected |-> FALSE, sent |-> FALSE,
            raised |-> FALSE, success |-> FALSE]

\* the process has started on host h: nothing is constructed yet
Fresh(h) ==
    /\ pc = "new"
    /\ running = FALSE
    /\ consecutive_failures = 0
    /\ waitLeft = 0
    /\ exitCode = None
    /\ environ = h[1]
    /\ imds = h[2]
    /\ imds_requests = 0
    /\ ctor_args = NoArgs
    /\ subscription_id = None
    /\ resource_group = None
    /\ resource_name = None
    /\ location = None
    /\ is_vmss = FALSE
    /\ vmss_name = None
    /\ instance_id = None
    /\ resource_uri = None
    /\ metrics_endpoint = None
    /\ last = NoSample
    /\ signalled = FALSE
    /\ health = NoHealth
    /\ stopCause = "none"
    /\ failures = 0
    /\ slept_after_signal = 0
    /\ counterSeen = FALSE
    /\ lastScrape = NoScrape
    /\ lastCycle = NoCycle
    /\ lastSend = NoSend
    /\ registry = NewRegistry
    /\ scrape_no = 0
    /\ scrape_at = 0
    /\ read_at = 0
    /\ body = NewRegistry
    /\ served = NoResponse
    /\ stop_event = FALSE
    /\ loop_pc = "test"
    /\ basic_success = FALSE
    /\ json_success = FALSE
    /\ exporter_scrapes_total = NoScrapesTotal
    /\ iteration_incs = 0

Init == \E h \in LoopHosts : Fresh(h)

\* the assignments of AzureMonitorSender.__init__
SetSender(args, obj) ==
    /\ ctor_args' = args
    /\ subscription_id' = obj.subscription_id
    /\ resource_group' = obj.resource_group
    /\ resource_name' = obj.resource_name
    /\ location' = obj.location
    /\ is_vmss' = obj.is_vmss
    /\ vmss_name' = obj.vmss_name
    /\ instance_id' = obj.instance_id
    /\ resource_uri' = obj.resource_uri
    /\ metrics_endpoint' = obj.metrics_endpoint

\* variant: a call resolves the identity again from the metadata service
IdentityAfterCall_Reresolved(self, args, env, doc) == SenderInit(args, env, doc)

\* send_metrics and health_check assign no attribute of the sender and do
\* not query the metadata service: the object is after the call what it was
IdentityAfterCall(self, args, env, doc) == self

\* the sender object across a call of send_metrics or health_check
KeepSender ==
    SetSender(ctor_args, IdentityAfterCall(Self, ctor_args, environ, imds))

(* ---------------- nginx_metrics_monitor.py ---------------- *)
\* NginxMetricsMonitor.__init__: get_azure_config queries the metadata
\* service, AzureMonitorSender.__init__ queries it again; then the signal
\* handlers are installed
Construct ==
    /\ pc = "new"
    /\ SetSender(GetAzureConfig(environ, imds),
                 SenderInit(GetAzureConfig(environ, imds), environ, imds))
    /\ imds_requests' = imds_requests + 2
    /\ pc' = "constructed"
    /\ UNCHANGED <<running, consecutive_failures, waitLeft, exitCode, environ,
                   imds, last, signalled, health, stopCause, failures,
                   counterSeen, lastScrape, lastCycle, lastSend,
                   exporterVars, slept_after_signal>>

\* variant: one healthy component is enough
HealthCheck_Either(prometheus_healthy, azure_healthy) ==
    prometheus_healthy \/ azure_healthy

\* NginxMetricsMonitor.health_check: both probes run, then the conjunction
HealthCheck(prometheus_healthy, azure_healthy) ==
    prometheus_healthy /\ azure_healthy

\* variant: a successful cycle leaves the counter alone
AfterSuccess_NoReset(c) == c

\* run: `consecutive_failures = 0` after a successful cycle
AfterSuccess(c) == 0

\* variant: a failed cycle is not counted
AfterFailure_Ignored(c) == c

\* run: `consecutive_failures += 1`
AfterFailure(c) == c + 1

\* variant: the loop stops one failure late
ThresholdReached_Late(c) == c > max_consecutive_failures

\* run: `consecutive_failures >= max_consecutive_failures`
ThresholdReached(c) == c >= max_consecutive_failures

\* what a get_nginx_key_metrics call is seen to do; `at` is the clock reading
\* of the rate code (lines 94-103), 0 when the call returns before it
ScrapeRecord(resp, now) ==
    LET has == DictHas(KeyMetrics(ScrapeMetrics(resp), <<>>), REQ)
    IN  [called |-> TRUE, kind |-> resp.kind, samples |-> resp.samples,
         hasCounter |-> has, seenBefore |-> counterSeen,
         first |-> has /\ ~counterSeen,
         escaped |-> resp.kind # "ok" /\ ~ScrapeCatches(resp.kind),
         metrics |-> GetNginxKeyMetrics(resp, now, last).metrics,
         at |-> IF ScrapeMetrics(resp) = <<>> THEN 0 ELSE now]

\* the scraper's part of a step that calls get_nginx_key_metrics
DoScrape(resp, now) ==
    /\ last' = GetNginxKeyMetrics(resp, now, last).last
    /\ lastScrape' = ScrapeRecord(resp, now)
    /\ counterSeen' = (counterSeen \/ ScrapeRecord(resp, now).hasCounter)

\* main: monitor.run() is entered and the initial health check begins
StartRun ==
    /\ pc = "constructed"
    /\ pc' = "probing"
    /\ UNCHANGED <<running, consecutive_failures, waitLeft, exitCode,
                   hostVars, senderVars, last, signalled, health, stopCause, failures,
                   counterSeen, lastScrape, lastCycle, lastSend,
                   exporterVars, slept_after_signal>>

\* run: the health check returns; sys.exit(1) or `self.running = True`.
\* The scrape probe met `status` or raised; the token request succeeded or not.
FinishHealth(status, raised, tokenOk) ==
    /\ pc = "probing"
    /\ health' = [done |-> TRUE, prometheus |-> ScraperHealth(status, raised),
                  token |-> tokenOk,
                  azure |-> SenderHealth(resource_uri, tokenOk)]
    /\ IF HealthCheck(ScraperHealth(status, raised),
                      SenderHealth(resource_uri, tokenOk))
       THEN /\ running' = TRUE
            /\ consecutive_failures' = 0
            /\ pc' = "loop"
            /\ UNCHANGED <<exitCode, stopCause>>
       ELSE /\ exitCode' = 1
            /\ stopCause' = "probe"
            /\ pc' = "exited"
            /\ UNCHANGED <<running, consecutive_failures>>
    /\ KeepSender
    /\ UNCHANGED <<waitLeft, environ, imds, imds_requests, last, signalled,
                   failures, counterSeen, lastScrape, lastCycle, lastSend,
                   exporterVars, slept_after_signal>>

\* _signal_handler: runs between any two steps of the main thread once
\* __init__ has installed it
Signal ==
    /\ pc \notin {"new", "exited"}
    /\ running' = FALSE
    /\ signalled' = TRUE
    /\ UNCHANGED <<pc, consecutive_failures, waitLeft, exitCode, hostVars, senderVars,
                   last, health, stopCause, failures, counterSeen, lastScrape,
                   lastCycle, lastSend,
                   exporterVars, slept_after_signal>>

\* run: `while self.running`
LoopTest ==
    /\ pc = "loop"
    /\ IF running
       THEN pc' = "cycle" /\ UNCHANGED stopCause
       ELSE pc' = "stopped" /\ stopCause' = "signal"
    /\ UNCHANGED <<running, consecutive_failures, waitLeft, exitCode,
                   hostVars, senderVars, last, signalled, health, failures,
                   counterSeen, lastScrape, lastCycle, lastSend,
                   exporterVars, slept_after_signal>>

\* run, lines 125-135, once collect_and_send_metrics has returned `success`
Evaluate(success) ==
    /\ consecutive_failures' =
           IF success THEN AfterSuccess(consecutive_failures)
           ELSE AfterFailure(consecutive_failures)
    /\ failures' = IF success THEN 0 ELSE failures + 1
    /\ IF ~success /\ ThresholdReached(AfterFailure(consecutive_failures))
       THEN pc' = "stopped" /\ stopCause' = "threshold" /\ UNCHANGED waitLeft
       ELSE pc' = "wait" /\ waitLeft' = ScrapeInterval /\ UNCHANGED stopCause
    /\ UNCHANGED <<running, exitCode, environ, imds, imds_requests, signalled,
                   health,
                   exporterVars, slept_after_signal>>

\* variant: an empty metric map is forwarded like any other
NoMetrics_Never(metrics) == FALSE

\* collect_and_send_metrics: `if not metrics`
NoMetrics(metrics) == metrics = <<>>

\* a cycle in which an exception reaches the handler of
\* collect_and_send_metrics before the scraper is called
CycleUnexpected ==
    /\ pc = "cycle"
    /\ lastCycle' = [NoCycle EXCEPT !.ran = TRUE, !.unexpected = TRUE,
                                    !.raised = TRUE]
    /\ Evaluate(FALSE)
    /\ UNCHANGED <<ctor_args, senderVars, last, counterSeen, lastScrape,
                   lastSend>>

\* a cycle whose scrape gives no metrics: `return False` before any send;
\* scraped is what get_nginx_key_metrics did on resp
CycleEmpty(resp, scraped) ==
    /\ pc = "cycle"
    /\ NoMetrics(scraped.metrics)
    /\ last' = scraped.last
    /\ lastCycle' = [NoCycle EXCEPT !.ran = TRUE, !.empty = TRUE,
                                    !.raised = (resp.kind # "ok")]
    /\ Evaluate(FALSE)
    /\ UNCHANGED <<ctor_args, senderVars, counterSeen, lastScrape, lastSend>>

\* a cycle that scrapes metrics and forwards them
CycleSend(scraped, tokenOk, responses) ==
    /\ pc = "cycle"
    /\ ~NoMetrics(scraped.metrics)
    /\ last' = scraped.last
    /\ KeepSender
    /\ UNCHANGED <<counterSeen, lastScrape>>
    /\ \E send \in {SendMetrics(Self, tokenOk, scraped.metrics, responses)} :
           /\ lastSend' = send
           /\ lastCycle' = [NoCycle EXCEPT !.ran = TRUE,
                                !.empty = (scraped.metrics = <<>>),
                                !.reset_from = IF send.result
                                               THEN consecutive_failures ELSE 0,
                                !.sent = TRUE,
                                !.raised = send.raised, !.success = send.result]
           /\ Evaluate(send.result)

\* a cycle whose scrape GET is never answered: the main thread stays in
\* session.get
ScrapeHangs ==
    /\ pc = "cycle"
    /\ MayBlockForever(ScrapeGetTimeout)
    /\ pc' = "blocked"
    /\ UNCHANGED <<running, consecutive_failures, waitLeft, exitCode,
                   hostVars, senderVars, last, signalled, health, stopCause,
                   failures, counterSeen, lastScrape, lastCycle, lastSend,
                   exporterVars, slept_after_signal>>

\* collect_and_send_metrics and the evaluation of its result in run
Cycle ==
    \/ CycleUnexpected
    \/ \E resp \in LoopScrapes, now \in LoopTimes :
         \E scraped \in {GetNginxKeyMetrics(resp, now, last)} :
           \/ CycleEmpty(resp, scraped)
           \/ \E tokenOk \in BOOLEAN :
                \E responses \in LoopResponses(Len(scraped.metrics)) :
                    CycleSend(scraped, tokenOk, responses)

\* run: one test of the wait loop, `if not self.running: break`
WaitCheck ==
    /\ pc = "wait"
    /\ pc' = IF waitLeft = 0 \/ ~running THEN "loop" ELSE "sleep"
    /\ UNCHANGED <<running, consecutive_failures, waitLeft, exitCode,
                   hostVars, senderVars, last, signalled, health, stopCause, failures,
                   counterSeen, lastScrape, lastCycle, lastSend,
                   exporterVars, slept_after_signal>>

\* run: time.sleep(1)
Sleep ==
    /\ pc = "sleep"
    /\ waitLeft' = waitLeft - 1
    /\ slept_after_signal' =
           IF running THEN slept_after_signal ELSE slept_after_signal + 1
    /\ pc' = "wait"
    /\ UNCHANGED <<running, consecutive_failures, exitCode, hostVars, senderVars, last,
                   signalled, health, stopCause, failures, counterSeen,
                   lastScrape, lastCycle, lastSend,
                   exporterVars>>

\* run: `except Exception` for an exception raised in the wait loop
LoopException ==
    /\ pc \in {"wait", "sleep"}
    /\ consecutive_failures' = AfterFailure(consecutive_failures)
    /\ failures' = failures + 1
    /\ pc' = "backoff"
    /\ UNCHANGED <<running, waitLeft, exitCode, hostVars, senderVars, last, signalled,
                   health, stopCause, counterSeen, lastScrape, lastCycle,
                   lastSend,
                   exporterVars, slept_after_signal>>

\* run: time.sleep(10) of the handler, then back to the loop test
Backoff ==
    /\ pc = "backoff"
    /\ slept_after_signal' =
           IF running THEN slept_after_signal
           ELSE slept_after_signal + BackoffSeconds
    /\ pc' = "loop"
    /\ UNCHANGED <<running, consecutive_failures, waitLeft, exitCode,
                   hostVars, senderVars, last, signalled, health, stopCause, failures,
                   counterSeen, lastScrape, lastCycle, lastSend,
                   exporterVars>>

\* run returns and main falls off its end: exit status 0
MainReturn ==
    /\ pc = "stopped"
    /\ pc' = "exited"
    /\ exitCode' = 0
    /\ UNCHANGED <<running, consecutive_failures, waitLeft, hostVars, senderVars, last,
                   signalled, health, stopCause, failures, counterSeen,
                   lastScrape, lastCycle, lastSend,
                   exporterVars, slept_after_signal>>

Next ==
    \/ Construct
    \/ StartRun
    \/ \E status \in {200, 503}, raised, tokenOk \in BOOLEAN :
           FinishHealth(status, raised, tokenOk)
    \/ Signal
    \/ LoopTest
    \/ Cycle
    \/ ScrapeHangs
    \/ WaitCheck
    \/ Sleep
    \/ LoopException
    \/ Backoff
    \/ MainReturn

Spec == Init /\ [][Next]_vars

\* the scrape answers the fair run loop is driven with
LiveScrapes ==
    {[kind |-> "error", samples |-> <<>>],
     [kind |-> "ok", samples |-> <<Sample(CONN, <<>>, 1)>>]}

\* collect_and_send_metrics driven with one input for each of its outcomes:
\* no metrics, token refused, batch accepted
CycleLive ==
    \/ CycleUnexpected
    \/ \E resp \in LiveScrapes :
         \E scraped \in {GetNginxKeyMetrics(resp, 0, last)} :
           \/ CycleEmpty(resp, scraped)
           \/ \E tokenOk \in BOOLEAN :
                CycleSend(scraped, tokenOk,
                          [i \in 1..Len(scraped.metrics) |-> Answer(204)])

\* the steps of the main thread
MainThread ==
    \/ Construct
    \/ StartRun
    \/ \E status \in {200, 503}, raised, tokenOk \in BOOLEAN :
           FinishHealth(status, raised, tokenOk)
    \/ LoopTest
    \/ CycleLive
    \/ ScrapeHangs
    \/ WaitCheck
    \/ Sleep
    \/ LoopException
    \/ Backoff
    \/ MainReturn

NextLive ==
    \/ MainThread
    \/ Signal

\* the run loop with a main thread that keeps executing: a statement that
\* can complete does complete
SpecLive == Init /\ [][NextLive]_vars /\ WF_vars(MainThread)

(* ---------------- the sender on its own ---------------- *)
\* AzureMonitorSender(subscription_id=..., resource_group=..., resource_name=...)
\* constructed directly, with one query of the metadata service
NewSender(args) ==
    /\ pc = "new"
    /\ SetSender(args, SenderInit(args, environ, imds))
    /\ imds_requests' = imds_requests + 1
    /\ pc' = "sender"
    /\ UNCHANGED <<running, consecutive_failures, waitLeft, exitCode, environ,
                   imds, last, signalled, health, stopCause, failures,
                   counterSeen, lastScrape, lastCycle, lastSend,
                   exporterVars, slept_after_signal>>

\* one call of send_metrics on a batch of n metrics, observed once
SendCall(tokenOk, n, responses) ==
    /\ pc = "sender"
    /\ ~lastSend.called
    /\ lastSend' = SendMetrics(Self, tokenOk, BatchOf(n), responses)
    /\ KeepSender
    /\ UNCHANGED <<pc, running, consecutive_failures, waitLeft, exitCode,
                   environ, imds, imds_requests, last, signalled, health,
                   stopCause, failures, counterSeen, lastScrape, lastCycle,
                   exporterVars, slept_after_signal>>

\* one call of AzureMonitorSender.health_check, observed once
HealthCall(tokenOk) ==
    /\ pc = "sender"
    /\ ~health.done
    /\ health' = [NoHealth EXCEPT !.done = TRUE, !.token = tokenOk,
                                  !.azure = SenderHealth(resource_uri, tokenOk)]
    /\ KeepSender
    /\ UNCHANGED <<pc, running, consecutive_failures, waitLeft, exitCode,
                   environ, imds, imds_requests, last, signalled, stopCause,
                   failures, counterSeen, lastScrape, lastCycle, lastSend,
                   exporterVars, slept_after_signal>>

\* the metadata service starts to answer doc instead of what it answered
MetadataChange(doc) ==
    /\ pc = "sender"
    /\ imds # doc
    /\ imds' = doc
    /\ UNCHANGED <<pc, running, consecutive_failures, waitLeft, exitCode,
                   environ, imds_requests, ctor_args, senderVars, last,
                   signalled, health, stopCause, failures, counterSeen,
                   lastScrape, lastCycle, lastSend,
                   exporterVars, slept_after_signal>>

InitSend == \E h \in SendHosts : Fresh(h)

NextSend ==
    \/ NewSender(NoArgs)
    \/ \E tokenOk \in BOOLEAN : HealthCall(tokenOk)
    \/ \E doc \in {h[2] : h \in SendHosts} : MetadataChange(doc)
    \/ \E tokenOk \in BOOLEAN, n \in 0..MaxBatch :
           \E responses \in [1..n -> Responses] :
               SendCall(tokenOk, n, responses)

SpecSend == InitSend /\ [][NextSend]_vars

(* ---------------- identity resolution on its own ---------------- *)
\* variant: only the first object of a process asks the metadata service,
\* a later one resolves from the configuration alone
SecondSender_NoQuery(self, args, env, doc) == SenderInit(args, env, ImdsDown)

\* __init__ of a later object: it reads its arguments, the environment and the
\* metadata service, and nothing of the object `self` constructed before it
SecondSender(self, args, env, doc) == SenderInit(args, env, doc)

\* AzureMonitorSender(...) constructed once more with the same arguments
ConstructAgain ==
    /\ pc = "sender"
    /\ imds_requests < MaxSenders
    /\ SetSender(ctor_args, SecondSender(Self, ctor_args, environ, imds))
    /\ imds_requests' = imds_requests + 1
    /\ UNCHANGED <<pc, running, consecutive_failures, waitLeft, exitCode, environ,
                   imds, last, signalled, health, stopCause, failures,
                   counterSeen, lastScrape, lastCycle, lastSend,
                   exporterVars, slept_after_signal>>

InitIdentity == \E env \in Environs, doc \in ImdsDocs : Fresh(<<env, doc>>)

NextIdentity ==
    \/ \E args \in ArgSet : NewSender(args)
    \/ ConstructAgain

SpecIdentity == InitIdentity /\ [][NextIdentity]_vars

(* ---------------- the scraper on its own ---------------- *)
\* one call of get_nginx_key_metrics
ScrapeCall(resp, now) ==
    /\ DoScrape(resp, now)
    /\ UNCHANGED <<pc, running, consecutive_failures, waitLeft, exitCode,
                   hostVars, senderVars, signalled, health, stopCause, failures,
                   lastCycle, lastSend,
                   exporterVars, slept_after_signal>>

InitScrape == Fresh(<<NoEnv, ImdsDown>>)

NextScrape ==
    \E in \in ScrapeInputs : ScrapeCall(in[1], in[2])

SpecScrape == InitScrape /\ [][NextScrape]_vars

(* ---------------- the exporter ---------------- *)
\* _scrape_loop: `while not self._stop_event.is_set()`
LoopBegin ==
    /\ loop_pc = "test"
    /\ IF stop_event
       THEN /\ loop_pc' = "exited"
            /\ UNCHANGED <<basic_success, json_success, iteration_incs>>
       ELSE /\ scrape_no < MaxScrapes
            /\ loop_pc' = "basic"
            /\ basic_success' = FALSE
            /\ json_success' = FALSE
            /\ iteration_incs' = 0
    /\ UNCHANGED <<monitorVars, registry, scrape_no, scrape_at, read_at, body,
                   served, stop_event, exporter_scrapes_total>>

\* _scrape_basic_metrics: the GET of stub_status; a failed GET returns False
\* and sets nothing
ScrapeGet(ok) ==
    /\ loop_pc = "basic"
    /\ scrape_no' = scrape_no + 1
    /\ scrape_at' = IF ok THEN 1 ELSE 0
    /\ loop_pc' = IF ok THEN "set" ELSE "json"
    /\ UNCHANGED <<monitorVars, registry, read_at, body, served, stop_event,
                   basic_success, json_success, exporter_scrapes_total,
                   iteration_incs>>

\* _scrape_basic_metrics: one `.set(...)` / `._value._value = ...` on the
\* metric object of the shared registry; `return True` after the last
ScrapeSet ==
    /\ loop_pc = "set"
    /\ scrape_at \in 1..Len(MetricObjects)
    /\ registry' = [registry EXCEPT ![scrape_at] = scrape_no]
    /\ IF scrape_at = Len(MetricObjects)
       THEN scrape_at' = 0 /\ loop_pc' = "json" /\ basic_success' = TRUE
       ELSE scrape_at' = scrape_at + 1 /\ UNCHANGED <<loop_pc, basic_success>>
    /\ UNCHANGED <<monitorVars, scrape_no, read_at, body, served, stop_event,
                   json_success, exporter_scrapes_total, iteration_incs>>

\* _scrape_json_metrics: the GET of the JSON status; True if it was answered
\* and parsed, False for anything raised
JsonGet(ok) ==
    /\ loop_pc = "json"
    /\ json_success' = ok
    /\ loop_pc' = "record"
    /\ UNCHANGED <<monitorVars, registry, scrape_no, scrape_at, read_at, body,
                   served, stop_event, basic_success, exporter_scrapes_total,
                   iteration_incs>>

\* _scrape_loop, lines 126-129: the result of the iteration is counted
Record ==
    /\ loop_pc = "record"
    /\ exporter_scrapes_total' =
           [exporter_scrapes_total
               EXCEPT ![ScrapeResult(basic_success, json_success)] = @ + 1]
    /\ iteration_incs' = iteration_incs + 1
    /\ loop_pc' = "observe"
    /\ UNCHANGED <<monitorVars, registry, scrape_no, scrape_at, read_at, body,
                   served, stop_event, basic_success, json_success>>

\* _scrape_loop, lines 131-135: the duration is observed and logged
Observe ==
    /\ loop_pc = "observe"
    /\ loop_pc' = "wait"
    /\ UNCHANGED <<monitorVars, registry, scrape_no, scrape_at, read_at, body,
                   served, stop_event, basic_success, json_success,
                   exporter_scrapes_total, iteration_incs>>

\* _scrape_loop: `except Exception` for an exception raised in the try block
\* outside the two scrape calls, which catch their own: in lines 126-129
\* before the result is counted, or in lines 131-135 after it
LoopError ==
    /\ loop_pc \in {"record", "observe"}
    /\ exporter_scrapes_total' =
           [exporter_scrapes_total EXCEPT !["error"] = @ + 1]
    /\ iteration_incs' = iteration_incs + 1
    /\ loop_pc' = "wait"
    /\ UNCHANGED <<monitorVars, registry, scrape_no, scrape_at, read_at, body,
                   served, stop_event, basic_success, json_success>>

\* _scrape_loop: self._stop_event.wait(self.scrape_interval) returns, at the
\* end of the interval or as soon as the event is set
LoopWait ==
    /\ loop_pc = "wait"
    /\ loop_pc' = "test"
    /\ UNCHANGED <<monitorVars, registry, scrape_no, scrape_at, read_at, body,
                   served, stop_event, basic_success, json_success,
                   exporter_scrapes_total, iteration_incs>>

\* a GET of the scrape loop that is never answered: the thread stays in
\* session.get
GetHangs ==
    /\ loop_pc \in {"basic", "json"}
    /\ MayBlockForever(ExporterGetTimeout)
    /\ loop_pc' = "blocked"
    /\ UNCHANGED <<monitorVars, registry, scrape_no, scrape_at, read_at, body,
                   served, stop_event, basic_success, json_success,
                   exporter_scrapes_total, iteration_incs>>

\* stop: self._stop_event.set(); the join that follows returns after 10
\* seconds at the latest, whether or not the thread has ended
Stop ==
    /\ ~stop_event
    /\ stop_event' = TRUE
    /\ UNCHANGED <<monitorVars, registry, scrape_no, scrape_at, read_at, body,
                   served, loop_pc, basic_success, json_success,
                   exporter_scrapes_total, iteration_incs>>

\* metrics(): a GET /metrics arrives and get_metrics calls generate_latest
MetricsBegin ==
    /\ read_at = 0
    /\ read_at' = 1
    /\ body' = NewRegistry
    /\ UNCHANGED <<monitorVars, registry, scrape_no, scrape_at, served, loopVars>>

\* generate_latest: the value of the next metric object is read; after the
\* last one the response is sent
MetricsRead ==
    /\ read_at \in 1..Len(MetricObjects)
    /\ body' = [body EXCEPT ![read_at] = registry[read_at]]
    /\ IF read_at = Len(MetricObjects)
       THEN /\ read_at' = 0
            /\ served' = [done |-> TRUE, body |-> body']
       ELSE /\ read_at' = read_at + 1
            /\ UNCHANGED served
    /\ UNCHANGED <<monitorVars, registry, scrape_no, scrape_at, loopVars>>

InitExporter == Fresh(<<NoEnv, ImdsDown>>)

\* the steps of the background scraper thread
ScrapeThread ==
    \/ LoopBegin
    \/ \E ok \in BOOLEAN : ScrapeGet(ok)
    \/ ScrapeSet
    \/ \E ok \in BOOLEAN : JsonGet(ok)
    \/ Record
    \/ Observe
    \/ LoopError
    \/ LoopWait
    \/ GetHangs

\* the scraper thread with every request answered, and the serving thread
NextExporter ==
    \/ LoopBegin
    \/ \E ok \in BOOLEAN : ScrapeGet(ok)
    \/ ScrapeSet
    \/ \E ok \in BOOLEAN : JsonGet(ok)
    \/ Record
    \/ Observe
    \/ LoopWait
    \/ MetricsBegin
    \/ MetricsRead

SpecExporter == InitExporter /\ [][NextExporter]_vars

(* ---------------- the scrape loop and stop() ---------------- *)
NextStop == ScrapeThread \/ Stop

\* the scraper thread is scheduled as long as it has a step to take
SpecStop == InitExporter /\ [][NextStop]_vars /\ WF_vars(ScrapeThread)

(* ================= properties ================= *)

(* ---- the run loop (Spec) ---- *)

\* C1: when a failed cycle brings the consecutive-failure counter to the
\* threshold, the loop is left in that very step (the inter-cycle wait is not
\* entered), and once the loop is left no scrape and no forward happens.
C1_ThresholdStopsLoop ==
    [][ /\ (pc = "cycle" /\ pc' \notin {"cycle", "blocked"} /\ ~lastCycle'.success
              /\ consecutive_failures' >= max_consecutive_failures)
           => (pc' = "stopped" /\ stopCause' = "threshold")
        /\ (pc \in {"stopped", "exited"})
           => (pc' \in {"stopped", "exited"} /\ last' = last
                 /\ lastCycle' = lastCycle /\ lastSend' = lastSend) ]_vars

C1_Witness ==
    /\ pc = "exited"
    /\ stopCause = "threshold"
    /\ consecutive_failures = max_consecutive_failures
    /\ ~lastCycle.success

\* C2: the exit status is 0 exactly when the loop stopped on a shutdown
\* signal; it is non-zero after a failed startup probe and after a trip of the
\* failure threshold.
C2_ExitStatus ==
    pc = "exited" => ((exitCode = 0) <=> (stopCause = "signal"))

C4_SignalStopsLoop ==
    [][signalled => ~(pc # "cycle" /\ pc' = "cycle")]_vars

\* C5: when the initial health probe fails (scrape source or forwarding path
\* unhealthy) the running flag is never set, no cycle runs, no metric is
\* POSTed, and the process ends with status 1.
C5_ProbeFailureIsFatal ==
    (health.done /\ (~health.prometheus \/ ~health.token \/ resource_uri = None))
        => /\ ~running
           /\ ~lastCycle.ran
           /\ ~lastSend.called
           /\ pc = "exited"
           /\ exitCode = 1

C5_Witness ==
    /\ health.done
    /\ health.prometheus
    /\ ~health.token
    /\ resource_uri # None
    /\ exitCode = 1

\* C6: an exception raised inside a cycle counts as exactly one failure and
\* is followed by the backoff pause, never by the normal interval wait.
C6_ExceptionBacksOff ==
    [][(pc = "cycle" /\ pc' \notin {"cycle", "blocked"} /\ lastCycle'.raised)
          => (consecutive_failures' = consecutive_failures + 1 /\ pc' # "wait")]_vars

(* ---- send_metrics (SpecSend) ---- *)

\* C7: a metric that is not accepted (non-2xx answer or raising POST) does
\* not abort the batch: once the batch is being sent, every metric is POSTed.
C7_BatchNotAborted ==
    (lastSend.called /\ lastSend.configured /\ lastSend.token_ok)
        => lastSend.posted = lastSend.names

\* the backend answers every POST, accepting exactly the first k
FirstKAccepted(responses, k) ==
    \A i \in 1..Len(responses) :
        /\ ~responses[i].exc
        /\ (responses[i].status \in {200, 202, 204}) <=> (i <= k)

\* C8: when the backend accepts the first K of N metrics and rejects the
\* rest, exactly N POSTs are issued, one per metric name in order, exactly K
\* are counted as accepted, and the batch is not a success when K < N.
C8_PartialAcceptance ==
    \A k \in 0..Len(lastSend.names) :
        (lastSend.called /\ lastSend.configured /\ lastSend.token_ok
           /\ FirstKAccepted(lastSend.responses, k))
        => /\ lastSend.posted = lastSend.names
           /\ lastSend.success_count = k
           /\ (k < Len(lastSend.names) => ~lastSend.result)

C8_Witness ==
    /\ lastSend.called /\ lastSend.configured /\ lastSend.token_ok
    /\ Len(lastSend.names) = 3
    /\ FirstKAccepted(lastSend.responses, 1)
    /\ lastSend.success_count = 1
    /\ ~lastSend.result

\* C9: send_metrics returns true only if every metric of the batch was
\* answered with 200, 202 or 204, and its accepted count is the number of
\* metrics answered with one of these.
C9_SuccessMeansAllAccepted ==
    lastSend.called
        => /\ lastSend.result
              => \A i \in 1..Len(lastSend.names) :
                     /\ ~lastSend.responses[i].exc
                     /\ lastSend.responses[i].status \in {200, 202, 204}
           /\ lastSend.success_count =
                  Cardinality({i \in 1..Len(lastSend.posted) :
                                   /\ ~lastSend.responses[i].exc
                                   /\ lastSend.responses[i].status \in {200, 202, 204}})

C9_Witness ==
    /\ lastSend.called
    /\ lastSend.result
    /\ Len(lastSend.names) = 2
    /\ lastSend.success_count = 2

(* ---- get_nginx_key_metrics (SpecScrape) ---- *)

\* C10: no nginx_requests_per_second is emitted on the first observation of
\* the request counter, and an emitted rate is never negative.
C10_RateAfterFirstObservation ==
    lastScrape.called
        => /\ lastScrape.first => ~DictHas(lastScrape.metrics, RPS)
           /\ DictHas(lastScrape.metrics, RPS)
                 => ~RatNeg(DictGet(lastScrape.metrics, RPS, <<0, 1>>))

\* C11: a rate is emitted only if the request counter is in this scrape and
\* was in an earlier one; a scrape without the counter creates no stored
\* sample.
C11_RateNeedsTwoObservations ==
    /\ DictHas(lastScrape.metrics, RPS)
          => (lastScrape.hasCounter /\ lastScrape.seenBefore)
    /\ last.set => counterSeen

\* the (name, label set) combinations of a payload
Combinations(samples) ==
    {<<samples[i].name, {samples[i].labels[j] : j \in 1..Len(samples[i].labels)}>> :
         i \in 1..Len(samples)}

\* the entries of a metric map that come from samples
SampleKeys(metrics) ==
    {metrics[i][1] : i \in 1..Len(metrics)} \ {RPS}

\* C12: samples that share a name but differ in their label sets are not
\* collapsed: the metric map has one entry for each distinct (name, label
\* set) combination of the payload.
C12_LabelSetsNotCollapsed ==
    (lastScrape.called /\ lastScrape.kind = "ok")
        => Cardinality(SampleKeys(lastScrape.metrics))
               = Cardinality(Combinations(lastScrape.samples))

\* C13: two scrapes of one sample each, with the same metric name and the
\* same set of label pairs, file the sample under the same key whatever the
\* order of the labels; an unlabelled sample is filed under its bare name.
C13_KeyIgnoresLabelOrder ==
    [][ (/\ Len(lastScrape.samples) = 1
         /\ Len(lastScrape'.samples) = 1)
        => /\ Combinations(lastScrape.samples) = Combinations(lastScrape'.samples)
                => lastScrape.metrics[1][1] = lastScrape'.metrics[1][1]
           /\ lastScrape'.samples[1].labels = <<>>
                => lastScrape'.metrics[1][1] = lastScrape'.samples[1].name ]_vars

(* ---- AzureMonitorSender.__init__ (SpecIdentity) ---- *)

\* the values configuration supplies for a field: constructor argument and
\* environment variable, where non-empty
Supplied(arg, envvar) == {arg, envvar} \ {None, ""}

\* the metadata service supplied a region
ImdsRegion == ~ImdsFailed(imds) /\ ~Falsy(imds.location)

\* C14: a value supplied by configuration (constructor argument or
\* environment) for subscription id, resource group, resource name or region
\* is the resolved one even if the metadata service answers another; the
\* region is 'northeurope' when neither source supplies it.
C14_ConfigurationWins ==
    pc = "sender"
        => /\ Supplied(ctor_args.subscription_id, environ.AZURE_SUBSCRIPTION_ID) # {}
                => subscription_id \in Supplied(ctor_args.subscription_id,
                                                environ.AZURE_SUBSCRIPTION_ID)
           /\ Supplied(ctor_args.resource_group, environ.AZURE_RESOURCE_GROUP) # {}
                => resource_group \in Supplied(ctor_args.resource_group,
                                               environ.AZURE_RESOURCE_GROUP)
           /\ Supplied(ctor_args.resource_name, environ.AZURE_RESOURCE_NAME) # {}
                => resource_name \in Supplied(ctor_args.resource_name,
                                              environ.AZURE_RESOURCE_NAME)
           /\ ~Falsy(environ.AZURE_REGION) => location = environ.AZURE_REGION
           /\ (Falsy(environ.AZURE_REGION) /\ ~ImdsRegion)
                => location = "northeurope"

\* C15: after construction the resource URI is None exactly if subscription
\* id or resource group is missing, or the host is no scale-set member and
\* the resource name is missing; otherwise URI and metrics endpoint are set.
C15_UriNoneIffIncomplete ==
    pc = "sender"
        => /\ resource_uri = None
                <=> \/ Falsy(subscription_id)
                    \/ Falsy(resource_group)
                    \/ (~is_vmss /\ Falsy(resource_name))
           /\ resource_uri = None <=> metrics_endpoint = None
           /\ resource_uri # ""

C15_Witness ==
    /\ pc = "sender"
    /\ resource_uri = None
    /\ ~Falsy(subscription_id)
    /\ ~Falsy(resource_group)
    /\ ~is_vmss

\* C16: a built URI names the virtualMachineScaleSets type with the
\* scale-set name for a scale-set member, never the virtualMachines type; for
\* a standalone VM it names the virtualMachines type with the VM name.
C16_UriTypeMatchesKind ==
    (pc = "sender" /\ resource_uri # None)
        => IF is_vmss
           THEN /\ resource_uri =
                       "/subscriptions/" \o subscription_id \o "/resourceGroups/"
                           \o resource_group
                           \o "/providers/Microsoft.Compute/virtualMachineScaleSets/"
                           \o vmss_name
                /\ resource_uri \notin
                       {VmUri(subscription_id, resource_group, n) :
                            n \in {resource_name, vmss_name, instance_id}}
           ELSE /\ resource_uri =
                       "/subscriptions/" \o subscription_id \o "/resourceGroups/"
                           \o resource_group
                           \o "/providers/Microsoft.Compute/virtualMachines/"
                           \o resource_name
                /\ resource_uri # VmssUri(subscription_id, resource_group,
                                          resource_name)

C16_Witness ==
    /\ pc = "sender"
    /\ is_vmss
    /\ resource_uri # None
    /\ resource_name = "cfg-vm"

\* C17: whatever the metadata service answers and whatever is overridden,
\* the resolved identity is a scale-set member exactly if its instance id is
\* present and non-empty.
C17_VmssIffInstanceId ==
    pc = "sender" => (is_vmss <=> instance_id \notin {None, ""})

(* ---- send_metrics: payloads and tokens (SpecSend) ---- *)

\* C18: every payload forwarded for a scale-set member carries the one
\* dimension name and the one dimension value '{scaleSetName}_{instanceId}';
\* every payload forwarded for a standalone VM carries neither; the two
\* lists have the same length.
C18_DimensionPerKind ==
    \A i \in 1..Len(lastSend.payloads) :
        /\ Len(lastSend.payloads[i].dimNames) = Len(lastSend.payloads[i].dimValues)
        /\ IF is_vmss
           THEN /\ Len(lastSend.payloads[i].dimNames) = 1
                /\ lastSend.payloads[i].dimValues
                       = <<vmss_name \o "_" \o instance_id>>
                /\ (vmss_name = "web-fleet" /\ instance_id = "web-fleet_3")
                       => lastSend.payloads[i].dimValues
                              = <<"web-fleet_web-fleet_3">>
           ELSE /\ lastSend.payloads[i].dimNames = <<>>
                /\ lastSend.payloads[i].dimValues = <<>>

\* C19: with no resource URI, send_metrics returns False without network
\* I/O: no token request, no POST, no exception.
C19_UnconfiguredShortCircuits ==
    (lastSend.called /\ resource_uri = None)
        => /\ ~lastSend.result
           /\ lastSend.tokens = 0
           /\ lastSend.posted = <<>>
           /\ lastSend.payloads = <<>>
           /\ ~lastSend.raised

C19_Witness ==
    /\ lastSend.called
    /\ resource_uri = None
    /\ Len(lastSend.names) = 2
    /\ lastSend.token_ok

C21_TokenFailureIsContained ==
    (lastSend.called /\ lastSend.configured /\ ~lastSend.token_ok)
        => /\ ~lastSend.result
           /\ lastSend.raised_at = "token"
           /\ ~lastSend.escaped
           /\ lastSend.posted = <<>>
           /\ lastSend.payloads = <<>>

C21_Witness ==
    /\ lastSend.called
    /\ lastSend.configured
    /\ ~lastSend.token_ok
    /\ lastSend.raised
    /\ Len(lastSend.names) = 2

(* ---- failures inside a cycle (Spec) ---- *)

\* the cycle met a transient I/O failure: the scrape endpoint was
\* unreachable, or the batch was handed to send_metrics and not accepted
\* (token unavailable, non-2xx answer, raising POST)
TransientFailure(cycle) ==
    \/ cycle.ran /\ cycle.raised /\ ~cycle.sent /\ ~cycle.unexpected
    \/ cycle.ran /\ cycle.sent /\ ~cycle.success

\* C22: a transient I/O failure in a cycle does not leave
\* collect_and_send_metrics as an exception: the cycle returns failure, the
\* failure counter grows by exactly one, and the loop goes on to its interval
\* wait unless the threshold is reached.
C22_TransientFailureIsCounted ==
    [][ (/\ pc = "cycle"
         /\ pc' \notin {"cycle", "blocked"}
         /\ TransientFailure(lastCycle'))
        => /\ ~lastCycle'.success
           /\ lastCycle'.sent => ~lastSend'.escaped
           /\ consecutive_failures' = consecutive_failures + 1
           /\ running' = running
           /\ exitCode' = exitCode
           /\ IF consecutive_failures' >= max_consecutive_failures
              THEN pc' = "stopped"
              ELSE pc' = "wait" /\ stopCause' = stopCause ]_vars

C22_Witness ==
    /\ pc = "wait"
    /\ running
    /\ lastCycle.sent
    /\ lastSend.configured
    /\ ~lastSend.token_ok
    /\ consecutive_failures = 1

(* ---- the startup probes (Spec) ---- *)

\* C23 as stated: the probe of the forwarding path succeeds exactly when a
\* token can be acquired, and the loop is entered only when this probe and
\* the scrape probe both succeeded.
C23_ForwardProbeIsTokenProbe ==
    health.done
        => /\ health.azure <=> health.token
           /\ (running \/ lastCycle.ran \/ stopCause \in {"signal", "threshold"})
                 => (health.prometheus /\ health.azure)

\* C23 amended: the probe of the forwarding path succeeds exactly when a
\* resource URI is configured and a token can be acquired (without a URI it
\* fails before any token request); no metric is POSTed by the probes, and
\* the loop is entered only when this probe and the scrape probe both
\* succeeded.
C23_ForwardProbeNeedsUriAndToken ==
    health.done
        => /\ health.azure <=> (resource_uri # None /\ health.token)
           /\ (running \/ lastCycle.ran \/ stopCause \in {"signal", "threshold"})
                 => (health.prometheus /\ health.azure)
           /\ ~lastCycle.ran => ~lastSend.called

C23_Witness ==
    /\ health.done
    /\ health.prometheus
    /\ health.token
    /\ ~health.azure
    /\ resource_uri = None
    /\ pc = "exited"

(* ---- the metadata service (SpecIdentity, Spec) ---- *)

\* C24: when the metadata query fails (error answer or malformed body) the
\* sender is still constructed: subscription id, resource group and resource
\* name are the configured ones, the host counts as a standalone VM with no
\* scale-set name and no instance id, and the region is the configured
\* region or else 'northeurope'.
C24_FallbackToConfiguration ==
    (pc = "sender" /\ imds.kind \in {"error", "malformed"})
        => /\ subscription_id
                  = PyOr(ctor_args.subscription_id, environ.AZURE_SUBSCRIPTION_ID)
           /\ resource_group
                  = PyOr(ctor_args.resource_group, environ.AZURE_RESOURCE_GROUP)
           /\ resource_name
                  = PyOr(ctor_args.resource_name, environ.AZURE_RESOURCE_NAME)
           /\ ~is_vmss
           /\ vmss_name = None
           /\ instance_id = None
           /\ location = (IF environ.AZURE_REGION \in {None, ""}
                          THEN "northeurope" ELSE environ.AZURE_REGION)

\* C25: in the lifetime of one monitor process the metadata service is
\* queried at most once, however many cycles run.
C25_MetadataQueriedOnce ==
    imds_requests <= 1

\* C26: after construction no call of send_metrics or health_check,
\* whatever its outcome and whatever the metadata service answers by then,
\* changes subscription id, resource group, resource name, region, kind,
\* scale-set name, instance id or resource URI; every POST goes to the
\* endpoint of the URI resolved at construction.
C26_IdentityImmutable ==
    [][ pc = "sender"
        => /\ senderVars' = senderVars
           /\ \A i \in 1..Len(lastSend'.payloads) :
                  lastSend'.payloads[i].endpoint
                      = Endpoint(PyOr(location, DefaultRegion), resource_uri) ]_vars

C26_Witness ==
    /\ pc = "sender"
    /\ is_vmss
    /\ resource_uri # None
    /\ imds = ImdsDown
    /\ health.done
    /\ lastSend.called
    /\ Len(lastSend.payloads) = 2

(* ---- the exporter (SpecExporter) ---- *)

\* C27: a /metrics response produced while the background scrape loop runs
\* never mixes values of two different scrapes.
C27_SnapshotNotMixed ==
    served.done
        => \A i, j \in 1..Len(served.body) : served.body[i] = served.body[j]

(* ---- progress of the run loop (SpecLive) ---- *)

\* C28: every network call of a cycle is bounded by a timeout, so a cycle
\* that has started always completes, also when a remote endpoint never
\* answers.
C28_CycleCompletes ==
    (pc = "cycle") ~> (pc \in {"wait", "stopped"})

(* ---- pauses of the run loop (Spec) ---- *)

\* C29: every pause between two cycles, the interval wait as well as the
\* backoff after an exception, proceeds in 1-second steps that each follow a
\* test of the running flag: once a signal has been delivered the loop
\* sleeps at most one more second.
C29_PauseInterruptible ==
    slept_after_signal <= 1

(* ---- parsing (SpecScrape) ---- *)

\* C30: parsing a scraped payload never raises to the caller: whatever the
\* payload, get_nginx_key_metrics returns a mapping (no key twice), and the
\* empty mapping for an empty payload and for one the parser rejects.
C30_ParsingNeverRaises ==
    lastScrape.called
        => /\ ~lastScrape.escaped
           /\ \A i, j \in 1..Len(lastScrape.metrics) :
                  lastScrape.metrics[i][1] = lastScrape.metrics[j][1] => i = j
           /\ (lastScrape.kind = "malformed" \/ lastScrape.samples = <<>>)
                 => lastScrape.metrics = <<>>
           /\ ScrapeMetrics([kind |-> lastScrape.kind,
                             samples |-> lastScrape.samples]) = <<>>
                 => lastScrape.metrics = <<>>

C30_Witness ==
    /\ lastScrape.called
    /\ lastScrape.kind = "malformed"
    /\ lastScrape.metrics = <<>>
    /\ last.set

\* C31: a parse anomaly is skipped sample by sample: when one line of a
\* payload is malformed or carries a value that is no number, every
\* well-formed sample of that payload is still in the result.
C31_AnomalySkippedPerSample ==
    (lastScrape.called /\ lastScrape.kind \in {"ok", "malformed"})
        => \A i \in 1..Len(lastScrape.samples) :
               DictHas(lastScrape.metrics,
                       SimplifiedName(lastScrape.samples[i].name,
                                      lastScrape.samples[i].labels))

(* ---- rate derivation (SpecScrape) ---- *)

\* C32: the derived rate is (current counter - previous counter) divided by
\* the time elapsed between the two observations, for a counter that has not
\* gone down: totals 1000 then 1050 scraped 10 seconds apart give
\* nginx_requests_per_second = 5.0 on the second call, and the first call of
\* all (nothing stored yet) gives no rate.
C32_RateIsIncreaseOverElapsed ==
    [][ (lastScrape'.called /\ lastScrape'.hasCounter)
        => /\ ~last.set => ~DictHas(lastScrape'.metrics, RPS)
           /\ (/\ last.set
               /\ last'.timestamp > last.timestamp
               /\ ~RatNeg(RatSub(last'.requests, last.requests)))
                 => /\ DictHas(lastScrape'.metrics, RPS)
                    /\ DictGet(lastScrape'.metrics, RPS, <<0, 1>>)
                          = RatDivInt(RatSub(last'.requests, last.requests),
                                      last'.timestamp - last.timestamp)
           /\ (/\ last = [set |-> TRUE, requests |-> Float(1000), timestamp |-> 0]
               /\ last' = [set |-> TRUE, requests |-> Float(1050), timestamp |-> 10])
                 => DictGet(lastScrape'.metrics, RPS, <<0, 1>>) = <<5, 1>> ]_vars

C32_Witness ==
    /\ lastScrape.called
    /\ lastScrape.hasCounter
    /\ lastScrape.seenBefore
    /\ last = [set |-> TRUE, requests |-> Float(1050), timestamp |-> 10]
    /\ DictHas(lastScrape.metrics, RPS)
    /\ DictGet(lastScrape.metrics, RPS, <<0, 1>>) = <<5, 1>>

\* C33: when no time, or less, has elapsed since the stored observation, the
\* derivation emits no rate (nothing is divided by the interval), and every
\* derivation, with or without a rate, overwrites the stored sample with the
\* current counter value and the current time.
C33_ZeroIntervalNoRateStoreOverwritten ==
    [][ (lastScrape'.called /\ lastScrape'.metrics # <<>>)
        => /\ (last.set /\ lastScrape'.at - last.timestamp <= 0)
                 => ~DictHas(lastScrape'.metrics, RPS)
           /\ last' = [set |-> TRUE,
                       requests |-> CurrentRequests(lastScrape'.metrics),
                       timestamp |-> lastScrape'.at] ]_vars

C33_Witness ==
    /\ lastScrape.called
    /\ lastScrape.hasCounter
    /\ lastScrape.seenBefore
    /\ ~DictHas(lastScrape.metrics, RPS)
    /\ last = [set |-> TRUE, requests |-> Float(2), timestamp |-> lastScrape.at]

(* ---- repeated construction (SpecIdentity) ---- *)

C35_NoCycleAtThreshold ==
    pc = "cycle" => ~ThresholdReached(consecutive_failures)

\* C36: a cycle whose scrape yields an empty metric map is a failed cycle in
\* which nothing is forwarded (send_metrics is not called: no token request,
\* no POST) and the stored rate sample is left as it was.
C36_EmptyScrapeFailsWithoutForward ==
    [][ (pc = "cycle" /\ pc' \notin {"cycle", "blocked"} /\ lastCycle'.empty)
        => /\ ~lastCycle'.success
           /\ ~lastCycle'.sent
           /\ lastSend' = lastSend
           /\ last' = last
           /\ consecutive_failures' = consecutive_failures + 1
           /\ failures' = failures + 1 ]_vars

C36_Witness ==
    /\ lastCycle.ran
    /\ lastCycle.empty
    /\ last.set
    /\ lastSend.called
    /\ lastSend.result
    /\ pc = "wait"
    /\ consecutive_failures = 1

(* ---- the scrape loop of the exporter and stop() (SpecStop) ---- *)

\* C37: after stop() has set the stop event the background scrape loop
\* finishes the scrape in progress, starts no further one and eventually
\* exits; and every completed iteration of the loop has incremented exactly
\* one of the scrape-result counters (success, failed, error).
C37_StopEndsLoopEachIterationCounted ==
    /\ stop_event ~> (loop_pc = "exited")
    /\ [][(stop_event /\ loop_pc = "test") => loop_pc' # "basic"]_vars
    /\ [](loop_pc = "wait" => iteration_incs = 1)

====
